---- MODULE Spec2Model ----
(***************************************************************************)
(* Model of lostutils: the `style` command (src/lostutils/cli.py), the     *)
(* fence scanner and formatter dispatch (src/lostutils/style.py) and the   *)
(* code-block extraction of the sample tests (src/tests/test_samples.py).  *)
(*                                                                         *)
(* A Python str is a sequence of characters, each character a string.      *)
(***************************************************************************)
EXTENDS Integers, Sequences, FiniteSets

VARIABLES
    \* ---- the style command over a batch of files (cli.py) ----
    disk,             \* file name -> content on disk
    disk0,            \* content of each file when the current run started
    run,              \* number of `style` invocations started so far
    pc,               \* position of style_command / format_file
    idx,              \* position of the `for filename in filenames` loop
    infile,           \* lines of the open input file not yet read
    is_in_fence,      \* format_file local
    fence_parameters, \* format_file local
    fenced_lines,     \* format_file local
    final_lines,      \* format_file local
    calls,            \* the format_str calls of the current format_file call
    fixed_md,         \* style_command local: what format_file returned
    written,          \* files whose write completed in the current run
    \* ---- one file rewritten repeatedly (format_file as a function) ----
    f_disk,           \* the content of the file
    f_input,          \* the content the file started with
    f_docker,         \* whether the docker invocations of this machine succeed
    f_res,            \* the result of each format_file call made so far
    \* ---- the extraction path (test_samples.py) ----
    ast,              \* the parsed document: a sequence of elements
    x_pc,             \* position of the extraction
    blocks,           \* what get_top_level_block_codes returned
    languages,        \* pytest_generate_tests local: the language allow-list
    run_blocks,       \* pytest_generate_tests local: the blocks not skipped
    fixture,          \* the fixture of the test function being parametrized
    argvalues,        \* the list handed to metafunc.parametrize
    \* ---- one call of format_str (style.py) ----
    d_args,           \* the arguments of the call
    d_res             \* what the call did, once it is made

vars == <<disk, disk0, run, pc, idx, infile, is_in_fence, fence_parameters,
          fenced_lines, final_lines, calls, fixed_md, written,
          f_disk, f_input, f_docker, f_res, ast, x_pc, blocks,
          languages, run_blocks, fixture, argvalues, d_args, d_res>>

styleVars == <<disk, disk0, run, pc, idx, infile, is_in_fence, fence_parameters,
               fenced_lines, final_lines, calls, fixed_md, written>>
fmtVars == <<f_disk, f_input, f_docker, f_res>>
extractVars == <<ast, x_pc, blocks, languages, run_blocks, fixture, argvalues>>
dispatchVars == <<d_args, d_res>>

(***************************************************************************)
(* Bounds                                                                  *)
(***************************************************************************)
MaxLines == 4      \* lines of a file rewritten by format_file (function view)
MaxPasses == 2     \* successive rewrites of the same file
NumFiles == 2      \* files of one batch of the style command
MaxRuns == 2       \* successive invocations of the style command
MaxElts == 3       \* elements of a parsed document

(***************************************************************************)
(* Python str operations                                                   *)
(***************************************************************************)
NL == "\n"
None == <<"None">>

Whitespace == {" ", "\n", "\t", "\r"}

ToLower ==
    [A |-> "a", B |-> "b", C |-> "c", D |-> "d", E |-> "e", F |-> "f", G |-> "g",
     H |-> "h", I |-> "i", J |-> "j", K |-> "k", L |-> "l", M |-> "m", N |-> "n",
     O |-> "o", P |-> "p", Q |-> "q", R |-> "r", S |-> "s", T |-> "t", U |-> "u",
     V |-> "v", W |-> "w", X |-> "x", Y |-> "y", Z |-> "z"]

lower_char(c) == IF c \in DOMAIN ToLower THEN ToLower[c] ELSE c

lower(s) == [i \in 1..Len(s) |-> lower_char(s[i])]

RECURSIVE rstrip(_)
rstrip(s) ==
    IF s = <<>> THEN s
    ELSE IF s[Len(s)] \in Whitespace THEN rstrip(SubSeq(s, 1, Len(s) - 1))
    ELSE s

RECURSIVE lstrip(_)
lstrip(s) ==
    IF s = <<>> THEN s
    ELSE IF s[1] \in Whitespace THEN lstrip(Tail(s))
    ELSE s

strip(s) == lstrip(rstrip(s))

startswith(s, prefix) ==
    Len(s) >= Len(prefix) /\ SubSeq(s, 1, Len(prefix)) = prefix

\* s[n:]
slice_from(s, n) == SubSeq(s, n + 1, Len(s))

\* sep.join(list)
RECURSIVE join(_, _)
join(sep, list) ==
    IF list = <<>> THEN <<>>
    ELSE IF Len(list) = 1 THEN list[1]
    ELSE list[1] \o sep \o join(sep, Tail(list))

\* index of the first c in s at or after position i, 0 when there is none
RECURSIVE find_from(_, _, _)
find_from(s, c, i) ==
    IF i > Len(s) THEN 0
    ELSE IF s[i] = c THEN i
    ELSE find_from(s, c, i + 1)

find(s, c) == find_from(s, c, 1)

\* s.split(c)
RECURSIVE split(_, _)
split(s, c) ==
    LET k == find(s, c) IN
    IF k = 0 THEN <<s>>
    ELSE <<SubSeq(s, 1, k - 1)>> \o split(slice_from(s, k), c)

\* `for line in infile`: the lines of a text file, each with its newline
RECURSIVE readlines(_)
readlines(s) ==
    LET k == find(s, NL) IN
    IF s = <<>> THEN <<>>
    ELSE IF k = 0 THEN <<s>>
    ELSE <<SubSeq(s, 1, k)>> \o readlines(slice_from(s, k))

\* print(text, file=outfile)
print_file(text) == text \o <<NL>>

(***************************************************************************)
(* The formatters format_str calls out to                                  *)
(***************************************************************************)
\* The backtick character (a string literal cannot hold one).
Backtick == "BACKTICK"
Fence == <<Backtick, Backtick, Backtick>>

\* The statements the formatters know, as written -> as formatted.
Statements == { <<"a">>, <<"x", "=", "1">>, <<"x", " ", "=", " ", "1">> }
formatted(stmt) ==
    IF stmt = <<"x", "=", "1">> THEN <<"x", " ", "=", " ", "1">> ELSE stmt

\* leading blank lines removed
RECURSIVE drop_blank_head(_)
drop_blank_head(ls) ==
    IF ls # <<>> /\ ls[1] = <<>> THEN drop_blank_head(Tail(ls)) ELSE ls

\* trailing blank lines removed
RECURSIVE drop_blank_tail(_)
drop_blank_tail(ls) ==
    IF ls # <<>> /\ ls[Len(ls)] = <<>>
    THEN drop_blank_tail(SubSeq(ls, 1, Len(ls) - 1))
    ELSE ls

\* at most two consecutive blank lines kept
RECURSIVE squeeze_blank(_)
squeeze_blank(ls) ==
    IF Len(ls) < 3 THEN ls
    ELSE IF ls[1] = <<>> /\ ls[2] = <<>> /\ ls[3] = <<>>
         THEN squeeze_blank(Tail(ls))
         ELSE <<ls[1]>> \o squeeze_blank(Tail(ls))

\* black.format_str(src, mode=black.Mode()): raises on source that does not
\* parse; drops the blank lines around the code, puts spaces around `=`
\* and ends the result with a newline.
black_format_str(src) ==
    LET ls == split(src, NL)
        body == squeeze_blank(drop_blank_tail(drop_blank_head(ls)))
    IN  IF \E i \in 1..Len(ls) : ls[i] # <<>> /\ ls[i] \notin Statements
        THEN [raised |-> TRUE, value |-> <<>>]
        ELSE [raised |-> FALSE,
              value |-> IF body = <<>> THEN <<>>
                        ELSE join(<<NL>>, [i \in 1..Len(body) |->
                                 IF body[i] = <<>> THEN <<>> ELSE formatted(body[i])])
                             \o <<NL>>]

\* What one `docker run ... styler::style_text(...)` can do.
DockerOutcomes == {"styled", "failed", "missing"}

\* subprocess.run([docker, ...], input=src, capture_output=True): the styled
\* text on stdout, nothing on stdout when the container fails, an exception
\* when there is no docker to run.
subprocess_run(src, outcome) ==
    LET ls == split(src, NL) IN
    CASE outcome = "missing" -> [raised |-> TRUE, stdout |-> <<>>]
      [] outcome = "failed" -> [raised |-> FALSE, stdout |-> <<>>]
      [] OTHER -> [raised |-> FALSE,
                   stdout |-> join(<<NL>>, [i \in 1..Len(ls) |->
                                 IF ls[i] \in Statements THEN formatted(ls[i])
                                 ELSE ls[i]]) \o <<NL>>]

(***************************************************************************)
(* style.py: format_str                                                    *)
(***************************************************************************)
Py == <<"p", "y">>
R == <<"r">>

\* format_str keeping the newline black ends its output with.
format_str_unstripped(src_string, parameters, docker) ==
    LET params == lower(strip(parameters)) IN
    IF startswith(params, Py)
    THEN LET b == black_format_str(src_string) IN
         IF b.raised THEN [raised |-> TRUE, value |-> <<>>, tools |-> <<"black">>]
         ELSE [raised |-> FALSE, tools |-> <<"black">>,
               value |-> join(<<NL>>, <<Fence \o params, b.value, Fence>>)]
    ELSE [raised |-> FALSE, tools |-> <<>>,
          value |-> join(<<NL>>, <<Fence \o params, src_string, Fence>>)]

\* format_str choosing the formatter by the header as written.
format_str_as_written(src_string, parameters, docker) ==
    LET params == lower(strip(parameters)) IN
    IF startswith(parameters, Py)
    THEN LET b == black_format_str(src_string) IN
         IF b.raised THEN [raised |-> TRUE, value |-> <<>>, tools |-> <<"black">>]
         ELSE [raised |-> FALSE, tools |-> <<"black">>,
               value |-> join(<<NL>>, <<Fence \o params, rstrip(b.value), Fence>>)]
    ELSE IF startswith(parameters, R)
    THEN LET proc == subprocess_run(src_string, docker) IN
         IF proc.raised THEN [raised |-> TRUE, value |-> <<>>, tools |-> <<"docker">>]
         ELSE [raised |-> FALSE, tools |-> <<"docker">>,
               value |-> join(<<NL>>, <<Fence \o params, rstrip(proc.stdout), Fence>>)]
    ELSE [raised |-> FALSE, tools |-> <<>>,
          value |-> join(<<NL>>, <<Fence \o params, src_string, Fence>>)]

\* format_str running the R toolchain a second time when it gave nothing.
format_str_retrying(src_string, parameters, docker) ==
    LET params == lower(strip(parameters)) IN
    IF startswith(params, Py)
    THEN LET b == black_format_str(src_string) IN
         IF b.raised THEN [raised |-> TRUE, value |-> <<>>, tools |-> <<"black">>]
         ELSE [raised |-> FALSE, tools |-> <<"black">>,
               value |-> join(<<NL>>, <<Fence \o params, rstrip(b.value), Fence>>)]
    ELSE IF startswith(params, R)
    THEN LET proc == subprocess_run(src_string, docker) IN
         IF proc.raised THEN [raised |-> TRUE, value |-> <<>>, tools |-> <<"docker">>]
         ELSE [raised |-> FALSE,
               tools |-> IF proc.stdout = <<>> THEN <<"docker", "docker">>
                         ELSE <<"docker">>,
               value |-> join(<<NL>>, <<Fence \o params, rstrip(proc.stdout), Fence>>)]
    ELSE [raised |-> FALSE, tools |-> <<>>,
          value |-> join(<<NL>>, <<Fence \o params, src_string, Fence>>)]

\* Lines 10-44.  `tools` records the formatters the call ran: black in this
\* process, `docker run` as a subprocess.
format_str(src_string, parameters, docker) ==
    LET params == lower(strip(parameters)) IN
    IF startswith(params, Py)
    THEN LET b == black_format_str(src_string) IN
         IF b.raised THEN [raised |-> TRUE, value |-> <<>>, tools |-> <<"black">>]
         ELSE [raised |-> FALSE, tools |-> <<"black">>,
               value |-> join(<<NL>>, <<Fence \o params, rstrip(b.value), Fence>>)]
    ELSE IF startswith(params, R)
    THEN LET proc == subprocess_run(src_string, docker) IN
         IF proc.raised THEN [raised |-> TRUE, value |-> <<>>, tools |-> <<"docker">>]
         ELSE [raised |-> FALSE, tools |-> <<"docker">>,
               value |-> join(<<NL>>, <<Fence \o params, rstrip(proc.stdout), Fence>>)]
    ELSE [raised |-> FALSE, tools |-> <<>>,
          value |-> join(<<NL>>, <<Fence \o params, src_string, Fence>>)]

\* The headers and sources format_str is called with, one call at a time.
HeaderSet ==
    { <<>>, <<" ">>, Py, <<"P", "y">>, <<" ", "P", "Y", " ">>,
      <<"p", "y", "t", "h", "o", "n", "3">>, <<"x", "p", "y">>,
      R, <<"R">>, <<" ", "r">>, <<"r", "u", "b", "y">>, <<"r", "p", "y">>,
      <<"b", "a", "s", "h">>, <<"S", "h">> }
SourceSet == { <<>>, <<"x", "=", "1">>, <<"(">> }

DispatchOff ==
    /\ d_args = <<>>
    /\ d_res = <<>>

DispatchInit ==
    /\ d_args \in [src_string : SourceSet, parameters : HeaderSet,
                    docker : DockerOutcomes]
    /\ d_res = <<>>

\* One call of format_str.
Dispatch ==
    /\ d_args # <<>>
    /\ d_res = <<>>
    /\ d_res' = <<format_str(d_args.src_string, d_args.parameters, d_args.docker)>>
    /\ UNCHANGED d_args

(***************************************************************************)
(* style.py: format_file                                                   *)
(***************************************************************************)
\* The locals of format_file when the file has just been opened.  `calls`
\* records the format_str calls made, `raised` that one of them raised.
scan_init ==
    [is_in_fence |-> FALSE, fence_parameters |-> None, fenced_lines |-> <<>>,
     final_lines |-> <<>>, raised |-> FALSE, calls |-> <<>>]

\* scan_line leaving out the blank lines that stand outside the fences.
scan_line_skipping_blank(st, rawline, docker) ==
    LET line == rstrip(rawline) IN
    IF startswith(line, Fence)
    THEN IF st.is_in_fence
         THEN LET src == join(<<NL>>, st.fenced_lines)
                  r == format_str(src, st.fence_parameters, docker)
                  call == [src_string |-> src, parameters |-> st.fence_parameters,
                           raised |-> r.raised, value |-> r.value,
                           tools |-> r.tools]
              IN  IF r.raised
                  THEN [st EXCEPT !.raised = TRUE, !.calls = Append(@, call)]
                  ELSE [st EXCEPT !.final_lines = Append(@, r.value),
                                  !.is_in_fence = FALSE,
                                  !.fenced_lines = <<>>,
                                  !.fence_parameters = None,
                                  !.calls = Append(@, call)]
         ELSE [st EXCEPT !.is_in_fence = TRUE,
                         !.fence_parameters = slice_from(strip(line), 3)]
    ELSE IF st.is_in_fence
    THEN [st EXCEPT !.fenced_lines = Append(@, line)]
    ELSE IF line = <<>> THEN st
    ELSE [st EXCEPT !.final_lines = Append(@, rstrip(line))]

\* scan_line closing a fence at a bare fence line only: a fence line with a
\* header, met inside a fence, is one more line of the body.
scan_line_bare_close(st, rawline, docker) ==
    LET line == rstrip(rawline) IN
    IF startswith(line, Fence) /\ (~st.is_in_fence \/ line = Fence)
    THEN IF st.is_in_fence
         THEN LET src == join(<<NL>>, st.fenced_lines)
                  r == format_str(src, st.fence_parameters, docker)
                  call == [src_string |-> src, parameters |-> st.fence_parameters,
                           raised |-> r.raised, value |-> r.value,
                           tools |-> r.tools]
              IN  IF r.raised
                  THEN [st EXCEPT !.raised = TRUE, !.calls = Append(@, call)]
                  ELSE [st EXCEPT !.final_lines = Append(@, r.value),
                                  !.is_in_fence = FALSE,
                                  !.fenced_lines = <<>>,
                                  !.fence_parameters = None,
                                  !.calls = Append(@, call)]
         ELSE [st EXCEPT !.is_in_fence = TRUE,
                         !.fence_parameters = slice_from(strip(line), 3)]
    ELSE IF st.is_in_fence
    THEN [st EXCEPT !.fenced_lines = Append(@, line)]
    ELSE [st EXCEPT !.final_lines = Append(@, rstrip(line))]

\* One iteration of `for line in infile`.
scan_line(st, rawline, docker) ==
    LET line == rstrip(rawline) IN
    IF startswith(line, Fence)
    THEN IF st.is_in_fence
         THEN LET src == join(<<NL>>, st.fenced_lines)
                  r == format_str(src, st.fence_parameters, docker)
                  call == [src_string |-> src, parameters |-> st.fence_parameters,
                           raised |-> r.raised, value |-> r.value,
                           tools |-> r.tools]
              IN  IF r.raised
                  THEN [st EXCEPT !.raised = TRUE, !.calls = Append(@, call)]
                  ELSE [st EXCEPT !.final_lines = Append(@, r.value),
                                  !.is_in_fence = FALSE,
                                  !.fenced_lines = <<>>,
                                  !.fence_parameters = None,
                                  !.calls = Append(@, call)]
         ELSE [st EXCEPT !.is_in_fence = TRUE,
                         !.fence_parameters = slice_from(strip(line), 3)]
    ELSE IF st.is_in_fence
    THEN [st EXCEPT !.fenced_lines = Append(@, line)]
    ELSE [st EXCEPT !.final_lines = Append(@, rstrip(line))]

\* The loop over the lines; an exception ends it.
RECURSIVE scan_lines(_, _, _)
scan_lines(st, rawlines, docker) ==
    IF rawlines = <<>> \/ st.raised THEN st
    ELSE scan_lines(scan_line(st, rawlines[1], docker), Tail(rawlines), docker)

\* Lines 84-89: merge the lines, remove extra whitespace, end in a newline.
\* merge_lines leaving the blank lines that end the file.
merge_lines_unstripped(lines) == join(<<NL>>, lines) \o <<NL>>

merge_lines(lines) == rstrip(join(<<NL>>, lines)) \o <<NL>>

\* format_file emitting the lines of a fence left open at the end of the file.
format_file_flushed(content, docker) ==
    LET st == scan_lines(scan_init, readlines(content), docker) IN
    [raised |-> st.raised,
     output |-> IF st.raised THEN <<>>
                ELSE merge_lines(st.final_lines \o
                         (IF st.is_in_fence
                          THEN <<Fence \o st.fence_parameters>> \o st.fenced_lines
                          ELSE <<>>)),
     calls |-> st.calls,
     is_in_fence |-> st.is_in_fence,
     final_lines |-> st.final_lines]

\* format_file on a file holding `content`: whether it raised, what it returned,
\* and the locals it ended with.
format_file(content, docker) ==
    LET st == scan_lines(scan_init, readlines(content), docker) IN
    [raised |-> st.raised,
     output |-> IF st.raised THEN <<>> ELSE merge_lines(st.final_lines),
     calls |-> st.calls,
     is_in_fence |-> st.is_in_fence,
     final_lines |-> st.final_lines]

(***************************************************************************)
(* The files the model rewrites                                            *)
(***************************************************************************)
\* The lines a file is made of: blank, a bare fence, fences with an
\* unrecognized / python / R header, a line ending in whitespace that is
\* python code the formatter changes, python code that does not parse.
LineSet ==
    { <<>>,
      Fence,
      Fence \o <<"S", "h">>,
      Fence \o <<"p", "y">>,
      Fence \o <<"r">>,
      <<"x", "=", "1", " ">>,
      <<"(">> }

SomeText == <<"S", "o", "m", "e", " ", "t", "e", "x", "t">>
MoreText == <<"M", "o", "r", "e", " ", "t", "e", "x", "t">>

\* The file of the basic rewrite scenario.
BasicLines == <<SomeText, Fence \o <<"p", "y">>, <<"x", "=", "1">>, Fence, MoreText>>

\* The lines of a file that start with the fence marker, right-trimmed.
fence_lines(content) ==
    LET ls == readlines(content) IN
    { rstrip(ls[i]) : i \in { j \in 1..Len(ls) : startswith(rstrip(ls[j]), Fence) } }

LineSeqs(n) == UNION { [1..k -> LineSet] : k \in 0..n }

\* A file holding the given lines (the last one without its newline).
file_of(lines) == join(<<NL>>, lines)

(***************************************************************************)
(* One file, rewritten by the style command again and again                *)
(***************************************************************************)
FmtOff ==
    /\ f_disk = <<>>
    /\ f_input = <<>>
    /\ f_docker = "styled"
    /\ f_res = <<>>

\* The docker outcome matters to the files that have an R fence only.
FmtInit ==
    /\ f_input \in { file_of(ls) : ls \in LineSeqs(MaxLines) \cup {BasicLines} }
    /\ f_disk = f_input
    /\ f_docker \in IF \E i \in fence_lines(f_input) :
                         startswith(lower(strip(slice_from(i, 3))), R)
                    THEN DockerOutcomes ELSE {"styled"}
    /\ f_res = <<>>

\* cli.py lines 41-43 for one file: format it, then write what came back.
Rewrite ==
    /\ Len(f_res) < MaxPasses
    /\ LET r == format_file(f_disk, f_docker) IN
         /\ f_res' = Append(f_res, r)
         /\ f_disk' = IF r.raised THEN f_disk ELSE print_file(r.output)
    /\ UNCHANGED <<f_input, f_docker>>

(***************************************************************************)
(* cli.py: the style command over a batch of files                         *)
(***************************************************************************)
\* The files a batch is made of.
DocSet ==
    { file_of(<<<<"a", " ">>, <<>>, <<>>>>),
      file_of(<<Fence \o <<"p", "y">>, <<"x", "=", "1">>, Fence, <<>>>>),
      file_of(<<<<"a", " ">>, Fence \o <<"p", "y">>, <<"(">>, Fence, <<"a", " ">>>>),
      file_of(<<<<"a", " ">>, Fence \o <<"S", "h">>, <<"x", "=", "1">>>>),
      file_of(<<Fence \o <<"S", "h">>, <<"x", "=", "1">>, Fence \o <<"p", "y">>, <<>>>>),
      file_of(<<Fence \o <<"r">>, <<"x", "=", "1">>, Fence>>),
      file_of(BasicLines) }

\* expand_and_filter_filenames(filename, skip): the files to process, in order.
filenames == [i \in 1..NumFiles |-> i]

StyleOff ==
    /\ disk = <<>>
    /\ disk0 = <<>>
    /\ run = 0
    /\ pc = "off"
    /\ idx = 0
    /\ infile = <<>>
    /\ is_in_fence = FALSE
    /\ fence_parameters = None
    /\ fenced_lines = <<>>
    /\ final_lines = <<>>
    /\ calls = <<>>
    /\ fixed_md = <<>>
    /\ written = {}

StyleInit ==
    /\ disk \in [1..NumFiles -> DocSet]
    /\ disk0 = disk
    /\ run = 0
    /\ pc = "idle"
    /\ idx = 0
    /\ infile = <<>>
    /\ is_in_fence = FALSE
    /\ fence_parameters = None
    /\ fenced_lines = <<>>
    /\ final_lines = <<>>
    /\ calls = <<>>
    /\ fixed_md = <<>>
    /\ written = {}

scanVars == <<infile, is_in_fence, fence_parameters, fenced_lines, final_lines, calls>>

\* The style command is run (again): line 39, the loop is entered.
Invoke ==
    /\ pc \in {"idle", "done", "raised"}
    /\ run < MaxRuns
    /\ run' = run + 1
    /\ disk0' = disk
    /\ idx' = 1
    /\ written' = {}
    /\ pc' = "loop"
    /\ UNCHANGED <<disk, fixed_md>>
    /\ UNCHANGED scanVars

\* Line 40, the files are exhausted: the command returns.
LoopEnd ==
    /\ pc = "loop"
    /\ idx > Len(filenames)
    /\ pc' = "done"
    /\ UNCHANGED <<disk, disk0, run, idx, fixed_md, written>>
    /\ UNCHANGED scanVars

\* OpenRead with the output file opened (and so truncated) before the file
\* is formatted.
OpenRead_truncating ==
    /\ pc = "loop"
    /\ idx <= Len(filenames)
    /\ infile' = readlines(disk[filenames[idx]])
    /\ disk' = [disk EXCEPT ![filenames[idx]] = <<>>]
    /\ is_in_fence' = scan_init.is_in_fence
    /\ fence_parameters' = scan_init.fence_parameters
    /\ fenced_lines' = scan_init.fenced_lines
    /\ final_lines' = scan_init.final_lines
    /\ calls' = scan_init.calls
    /\ pc' = "scan"
    /\ UNCHANGED <<disk0, run, idx, fixed_md, written>>

\* OpenRead with the fence state kept from the file scanned before.
OpenRead_keeping_fence ==
    /\ pc = "loop"
    /\ idx <= Len(filenames)
    /\ infile' = readlines(disk[filenames[idx]])
    /\ final_lines' = scan_init.final_lines
    /\ calls' = scan_init.calls
    /\ pc' = "scan"
    /\ UNCHANGED <<disk, disk0, run, idx, fixed_md, written>>
    /\ UNCHANGED <<is_in_fence, fence_parameters, fenced_lines>>

\* Line 41 calls format_file, which opens the file for reading and sets its
\* locals (style.py lines 50-56).
OpenRead ==
    /\ pc = "loop"
    /\ idx <= Len(filenames)
    /\ infile' = readlines(disk[filenames[idx]])
    /\ is_in_fence' = scan_init.is_in_fence
    /\ fence_parameters' = scan_init.fence_parameters
    /\ fenced_lines' = scan_init.fenced_lines
    /\ final_lines' = scan_init.final_lines
    /\ calls' = scan_init.calls
    /\ pc' = "scan"
    /\ UNCHANGED <<disk, disk0, run, idx, fixed_md, written>>

\* style.py lines 58-82, one line of the file.  An exception of format_str
\* is caught nowhere: it ends format_file, the loop and the command.
ScanLine ==
    /\ pc = "scan"
    /\ infile # <<>>
    /\ \E docker \in DockerOutcomes :
         LET st == scan_line([is_in_fence |-> is_in_fence,
                              fence_parameters |-> fence_parameters,
                              fenced_lines |-> fenced_lines,
                              final_lines |-> final_lines,
                              raised |-> FALSE,
                              calls |-> calls], infile[1], docker)
         IN  /\ is_in_fence' = st.is_in_fence
             /\ fence_parameters' = st.fence_parameters
             /\ fenced_lines' = st.fenced_lines
             /\ final_lines' = st.final_lines
             /\ calls' = st.calls
             /\ pc' = IF st.raised THEN "raised" ELSE "scan"
    /\ infile' = Tail(infile)
    /\ UNCHANGED <<disk, disk0, run, idx, fixed_md, written>>

\* style.py lines 84-89: the file is read, format_file returns.
Return ==
    /\ pc = "scan"
    /\ infile = <<>>
    /\ fixed_md' = merge_lines(final_lines)
    /\ pc' = "open"
    /\ UNCHANGED <<disk, disk0, run, idx, written>>
    /\ UNCHANGED scanVars

\* cli.py line 42: open(filename, "wt") truncates the file.
OpenWrite ==
    /\ pc = "open"
    /\ disk' = [disk EXCEPT ![filenames[idx]] = <<>>]
    /\ pc' = "print"
    /\ UNCHANGED <<disk0, run, idx, fixed_md, written>>
    /\ UNCHANGED scanVars

\* cli.py line 43: print(fixed_md, file=outfile), the file is closed and the
\* loop moves on.
WriteOut ==
    /\ pc = "print"
    /\ disk' = [disk EXCEPT ![filenames[idx]] = @ \o print_file(fixed_md)]
    /\ written' = written \cup {filenames[idx]}
    /\ idx' = idx + 1
    /\ pc' = "loop"
    /\ UNCHANGED <<disk0, run, fixed_md>>
    /\ UNCHANGED scanVars

(***************************************************************************)
(* test_samples.py: get_top_level_block_codes                              *)
(***************************************************************************)
\* str.partition(c): what is before the first c, and what is after it.
partition(s, c) ==
    LET k == find(s, c) IN
    IF k = 0 THEN [head |-> s, tail |-> <<>>]
    ELSE [head |-> SubSeq(s, 1, k - 1), tail |-> slice_from(s, k)]

\* The values of `key` among the key=value pairs, in order; a pair with a
\* blank value is dropped (keep_blank_values is off).
RECURSIVE values_of(_, _)
values_of(pairs, key) ==
    IF pairs = <<>> THEN <<>>
    ELSE LET kv == partition(pairs[1], "=") IN
         (IF kv.head = key /\ kv.tail # <<>> THEN <<kv.tail>> ELSE <<>>)
         \o values_of(Tail(pairs), key)

\* urllib.parse.parse_qs(qs): key -> the list of its values.  (No character
\* of the headers modelled is percent-encoded.)
parse_qs(qs) ==
    LET pairs == split(qs, "&")
        keys == { partition(pairs[i], "=").head : i \in 1..Len(pairs) }
    IN  [k \in { key \in keys : values_of(pairs, key) # <<>> } |-> values_of(pairs, k)]

Example == <<"e", "x", "a", "m", "p", "l", "e">>
Location == "doc.md"

\* code_block lowercasing the language only, after the header is split.
code_block_language_lowered(elt) ==
    LET info == IF elt.info = None THEN <<>> ELSE elt.info
        parts == partition(info, "?")
        doptions == IF parts.tail # <<>> THEN parse_qs(parts.tail) ELSE <<>>
    IN  [name |-> IF parts.tail # <<>> /\ Example \in DOMAIN doptions
                  THEN doptions[Example][1] ELSE <<>>,
         block |-> [language |-> lower(parts.head), code |-> elt.text,
                    options |-> doptions, location |-> Location]]

\* Lines 81-97: the CodeBlock of one block_code element, and its name.
code_block(elt) ==
    LET info == lower(IF elt.info = None THEN <<>> ELSE elt.info)
        parts == partition(info, "?")
        doptions == IF parts.tail # <<>> THEN parse_qs(parts.tail) ELSE <<>>
    IN  [name |-> IF parts.tail # <<>> /\ Example \in DOMAIN doptions
                  THEN doptions[Example][1] ELSE <<>>,
         block |-> [language |-> parts.head, code |-> elt.text,
                    options |-> doptions, location |-> Location]]

\* append_named keeping only the newest block of a name.
append_named_replacing(named_blocks, name, block) ==
    IF \E i \in 1..Len(named_blocks) : named_blocks[i].name = name
    THEN [i \in 1..Len(named_blocks) |->
            IF named_blocks[i].name = name
            THEN [named_blocks[i] EXCEPT !.members = <<block>>]
            ELSE named_blocks[i]]
    ELSE Append(named_blocks, [name |-> name, members |-> <<block>>])

\* named_blocks[name].append(block) on a defaultdict(list), which keeps its
\* keys in insertion order: a sequence of [name, members].
append_named(named_blocks, name, block) ==
    IF \E i \in 1..Len(named_blocks) : named_blocks[i].name = name
    THEN [i \in 1..Len(named_blocks) |->
            IF named_blocks[i].name = name
            THEN [named_blocks[i] EXCEPT !.members = Append(@, block)]
            ELSE named_blocks[i]]
    ELSE Append(named_blocks, [name |-> name, members |-> <<block>>])

\* Lines 77-101: the loop over the elements.
RECURSIVE collect(_, _)
collect(acc, elts) ==
    IF elts = <<>> THEN acc
    ELSE IF elts[1].type # "block_code" THEN collect(acc, Tail(elts))
    ELSE LET cb == code_block(elts[1]) IN
         IF cb.name # <<>>
         THEN collect([acc EXCEPT !.named_blocks =
                          append_named(@, cb.name, cb.block)], Tail(elts))
         ELSE collect([acc EXCEPT !.unnamed_blocks = Append(@, cb.block)],
                      Tail(elts))

\* merged_block taking the language and options of the last block of the name.
merged_block_last(block_of_blocks) ==
    [code |-> join(<<NL, NL>>,
                   [i \in 1..Len(block_of_blocks) |-> block_of_blocks[i].code]),
     language |-> block_of_blocks[Len(block_of_blocks)].language,
     location |-> Location,
     options |-> block_of_blocks[Len(block_of_blocks)].options]

\* Lines 105-110: the block made of the blocks of one name.
merged_block(block_of_blocks) ==
    [code |-> join(<<NL, NL>>,
                   [i \in 1..Len(block_of_blocks) |-> block_of_blocks[i].code]),
     language |-> block_of_blocks[1].language,
     location |-> Location,
     options |-> block_of_blocks[1].options]

\* append_merged putting the merged blocks first.
append_merged_first(unnamed_blocks, named_blocks) ==
    [i \in 1..Len(named_blocks) |-> merged_block(named_blocks[i].members)]
        \o unnamed_blocks

\* Lines 103-113: the merged blocks are appended to the unnamed ones.
append_merged(unnamed_blocks, named_blocks) ==
    unnamed_blocks \o
        [i \in 1..Len(named_blocks) |-> merged_block(named_blocks[i].members)]

get_top_level_block_codes(mark) ==
    LET acc == collect([named_blocks |-> <<>>, unnamed_blocks |-> <<>>], mark)
    IN  append_merged(acc.unnamed_blocks, acc.named_blocks)

(***************************************************************************)
(* test_samples.py: pytest_generate_tests                                  *)
(***************************************************************************)
Skip == <<"s", "k", "i", "p">>
True == <<"t", "r", "u", "e">>
Python == <<"p", "y", "t", "h", "o", "n">>

\* Line 157: block.options.get("skip", ["false"])[0].lower() != "true".
is_run(block) ==
    IF Skip \in DOMAIN block.options
    THEN lower(block.options[Skip][1]) # True
    ELSE TRUE

\* skip_filter that skips nothing.
skip_filter_none(all_blocks) == all_blocks

\* Lines 154-158: the blocks not labeled skip, in order.
RECURSIVE skip_filter(_)
skip_filter(all_blocks) ==
    IF all_blocks = <<>> THEN <<>>
    ELSE (IF is_run(all_blocks[1]) THEN <<all_blocks[1]>> ELSE <<>>)
         \o skip_filter(Tail(all_blocks))

\* Lines 164 and 175: the blocks of the language of a fixture, in order.
is_language(fix, block) ==
    IF fix = "python_code_block" THEN startswith(block.language, Py)
    ELSE block.language = R

RECURSIVE language_filter(_, _)
language_filter(fix, bs) ==
    IF bs = <<>> THEN <<>>
    ELSE (IF is_language(fix, bs[1]) THEN <<bs[1]>> ELSE <<>>)
         \o language_filter(fix, Tail(bs))

\* Lines 169 and 180: the block run in place of the blocks of a language
\* that is not asked for.
OnePlusOne == <<"1", " ", "+", " ", "1">>
placeholder(fix) ==
    [language |-> IF fix = "python_code_block" THEN Python ELSE R,
     code |-> OnePlusOne, options |-> <<>>, location |-> ""]

\* Lines 135-137: the --language options, stripped and lowercased.
language_list(option) == [i \in 1..Len(option) |-> lower(strip(option[i]))]

\* parametrized without the check of the languages asked for.
parametrized_unchecked(fix, langs, bs) == language_filter(fix, bs)

\* Lines 160-181: the list a fixture is parametrized with.
parametrized(fix, langs, bs) ==
    LET language == IF fix = "python_code_block" THEN Python ELSE R IN
    IF langs = <<>> \/ (\E i \in 1..Len(langs) : langs[i] = language)
    THEN language_filter(fix, bs)
    ELSE <<placeholder(fix)>>

\* The fence headers of the documents modelled.
InfoSet ==
    { None,
      <<"p", "y">>,
      <<"r", "?">> \o Example \o <<"=", "a">>,
      <<"r", "?">> \o Example \o <<"=">>,
      <<"P", "y", "?">> \o Example \o <<"=", "B">>,
      Python \o <<"?", "s", "k", "i", "p", "=", "t", "r", "u", "e", "&">>
          \o Example \o <<"=", "b">>,
      <<"P", "y", "?", "S", "K", "I", "P", "=", "T", "R", "U", "E">> }

\* The code of the block at position i of a document.
Digits == <<"1", "2", "3", "4", "5", "6", "7", "8", "9">>
text_at(i) == <<Digits[i], NL>>

\* The elements a document can have at position i.
EltSet(i) ==
    { [type |-> "paragraph", info |-> None, text |-> <<>>] }
    \cup { [type |-> "block_code", info |-> h, text |-> text_at(i)] : h \in InfoSet }

\* The values the --language option is given.
LanguageOptions ==
    { <<>>, <<<<" ", "P", "y", "t", "h", "o", "n">>>>, <<<<"R">>>>,
      <<Python, <<"r">>>> }

Fixtures == {"python_code_block", "r_code_block"}

ExtractOff ==
    /\ ast = <<>>
    /\ x_pc = "off"
    /\ blocks = <<>>
    /\ languages = <<>>
    /\ run_blocks = <<>>
    /\ fixture = ""
    /\ argvalues = <<>>

ExtractInit ==
    /\ ast \in UNION { { d \in [1..k -> UNION { EltSet(i) : i \in 1..k }] :
                          \A i \in 1..k : d[i] \in EltSet(i) } : k \in 0..MaxElts }
    /\ x_pc = "parsed"
    /\ blocks = <<>>
    /\ languages = <<>>
    /\ run_blocks = <<>>
    /\ fixture = ""
    /\ argvalues = <<>>

\* Line 149: blocks = get_top_level_block_codes(text, filename).
Collect ==
    /\ x_pc = "parsed"
    /\ blocks' = get_top_level_block_codes(ast)
    /\ x_pc' = "collected"
    /\ UNCHANGED <<ast, languages, run_blocks, fixture, argvalues>>

\* Lines 135-137 and 152-181, for the test function that takes the fixture:
\* the skipped blocks go, the fixture is parametrized.
Parametrize ==
    /\ x_pc = "collected"
    /\ \E option \in LanguageOptions : \E fix \in Fixtures :
         /\ languages' = language_list(option)
         /\ run_blocks' = skip_filter(blocks)
         /\ fixture' = fix
         /\ argvalues' = parametrized(fix, language_list(option), skip_filter(blocks))
    /\ x_pc' = "parametrized"
    /\ UNCHANGED <<ast, blocks>>

(***************************************************************************)
(* Specifications                                                          *)
(***************************************************************************)
\* The style command over a batch of files.
Init == StyleInit /\ FmtOff /\ ExtractOff /\ DispatchOff

Next ==
    \/ Invoke /\ UNCHANGED <<fmtVars, extractVars, dispatchVars>>
    \/ LoopEnd /\ UNCHANGED <<fmtVars, extractVars, dispatchVars>>
    \/ OpenRead /\ UNCHANGED <<fmtVars, extractVars, dispatchVars>>
    \/ ScanLine /\ UNCHANGED <<fmtVars, extractVars, dispatchVars>>
    \/ Return /\ UNCHANGED <<fmtVars, extractVars, dispatchVars>>
    \/ OpenWrite /\ UNCHANGED <<fmtVars, extractVars, dispatchVars>>
    \/ WriteOut /\ UNCHANGED <<fmtVars, extractVars, dispatchVars>>

Spec == Init /\ [][Next]_vars

\* One file of any content, rewritten repeatedly.
InitFmt == StyleOff /\ FmtInit /\ ExtractOff /\ DispatchOff

NextFmt == Rewrite /\ UNCHANGED <<styleVars, extractVars, dispatchVars>>

SpecFmt == InitFmt /\ [][NextFmt]_vars

\* The extraction of the code blocks of one document.
InitExtract == StyleOff /\ FmtOff /\ ExtractInit /\ DispatchOff

NextExtract ==
    \/ Collect /\ UNCHANGED <<styleVars, fmtVars, dispatchVars>>
    \/ Parametrize /\ UNCHANGED <<styleVars, fmtVars, dispatchVars>>

SpecExtract == InitExtract /\ [][NextExtract]_vars

\* One call of format_str, with any header.
InitDispatch == StyleOff /\ FmtOff /\ ExtractOff /\ DispatchInit

NextDispatch == Dispatch /\ UNCHANGED <<styleVars, fmtVars, extractVars>>

SpecDispatch == InitDispatch /\ [][NextDispatch]_vars

(***************************************************************************)
(* Properties of the rewrite of one file (SpecFmt)                         *)
(***************************************************************************)
\* The lines of a file that start with the fence marker, by position.
fence_positions(content) ==
    LET ls == readlines(content) IN
    { i \in 1..Len(ls) : startswith(rstrip(ls[i]), Fence) }

\* A header no formatter is registered for.
unrecognized(header) ==
    LET h == lower(strip(header)) IN ~startswith(h, Py) /\ ~startswith(h, R)

\* No fence line of the file carries a recognized header.
passthrough_only(content) ==
    LET ls == readlines(content) IN
    \A i \in fence_positions(content) : unrecognized(slice_from(rstrip(ls[i]), 3))

\* The file but for the whitespace ending its lines and ending the file.
normalized(content) ==
    LET ls == readlines(content) IN
    rstrip(join(<<NL>>, [i \in 1..Len(ls) |-> rstrip(ls[i])])) \o <<NL>>

\* C4: rewriting is idempotent.  Once a rewrite of the file has succeeded,
\* every later rewrite of the file as written returns the same text and
\* leaves the same bytes on disk, and format_file applied to its own output
\* returns that output.
C4_Idempotent ==
    \A k \in 2..Len(f_res) :
        ~f_res[k - 1].raised =>
            /\ ~f_res[k].raised
            /\ f_res[k].output = f_res[k - 1].output
            /\ f_disk = print_file(f_res[k - 1].output)
            /\ format_file(f_res[k - 1].output, f_docker).output = f_res[k - 1].output

\* A second rewrite of a file whose first rewrite changed it and which holds
\* a formatted block.
C4_Witness ==
    /\ Len(f_res) >= 2
    /\ ~f_res[1].raised
    /\ f_res[1].calls # <<>>
    /\ f_res[1].output # f_input
    /\ f_res[2].output = f_res[1].output

\* Every fence of the file is closed, by a line holding the marker alone.
well_closed(content) ==
    LET ls == readlines(content)
        fp == fence_positions(content)
    IN  /\ Cardinality(fp) % 2 = 0
        /\ \A i \in fp :
              Cardinality({ j \in fp : j <= i }) % 2 = 0 => rstrip(ls[i]) = Fence

\* C5 as claimed, on the files whose fences are all closed by a bare marker:
\* a file without recognized fences comes back as it was but for the
\* whitespace ending its lines and the file, its header lines unchanged.
C5_RoundTripPassthrough ==
    (Len(f_res) >= 1 /\ passthrough_only(f_input) /\ well_closed(f_input)) =>
        /\ ~f_res[1].raised
        /\ f_res[1].output = normalized(f_input)

\* C6 as claimed: the block of an unrecognized header is emitted under that
\* header as it stands in the file.
C6_OriginalHeaderKept ==
    \A k \in 1..Len(f_res) : \A i \in 1..Len(f_res[k].calls) :
        LET call == f_res[k].calls[i] IN
        unrecognized(call.parameters) =>
            /\ ~call.raised
            /\ call.value = join(<<NL>>, <<Fence \o call.parameters,
                                           call.src_string, Fence>>)

FormattedCode == <<"x", " ", "=", " ", "1">>

\* C7 as claimed: the basic rewrite scenario puts a blank line on each side
\* of the formatted block.
C7_BasicRewriteBlankLines ==
    (Len(f_res) >= 1 /\ f_input = file_of(BasicLines)) =>
        /\ ~f_res[1].raised
        /\ f_res[1].output =
              join(<<NL>>, <<SomeText, <<>>, Fence \o Py, FormattedCode, Fence,
                             <<>>, MoreText>>) \o <<NL>>

\* C7, amended: the basic rewrite scenario returns the plain lines and the
\* formatted block one per line, no blank line added, and a single newline
\* at the end.
C7_BasicRewrite ==
    (Len(f_res) >= 1 /\ f_input = file_of(BasicLines)) =>
        /\ ~f_res[1].raised
        /\ f_res[1].output =
              join(<<NL>>, <<SomeText, Fence \o Py, FormattedCode, Fence,
                             MoreText>>) \o <<NL>>

C7_Witness ==
    /\ f_input = file_of(BasicLines)
    /\ Len(f_res) >= 1
    /\ Len(f_res[1].calls) = 1

\* The file ends inside a fence.
unterminated(content) == Cardinality(fence_positions(content)) % 2 = 1

\* The position of the last fence line.
last_fence(content) ==
    CHOOSE i \in fence_positions(content) :
        \A j \in fence_positions(content) : j <= i

\* The file cut before its line k.
before_line(content, k) ==
    LET ls == readlines(content) IN join(<<>>, SubSeq(ls, 1, k - 1))

\* C8: a file that ends inside a fence is rewritten as the file cut before
\* the line opening that fence: the same outcome, the same output and the
\* same format_str calls, one per closed fence, so none for the open one.
C8_UnterminatedFenceDropped ==
    (Len(f_res) >= 1 /\ unterminated(f_input)) =>
        LET k == last_fence(f_input)
            cut == format_file(before_line(f_input, k), f_docker)
        IN  /\ f_res[1].raised = cut.raised
            /\ f_res[1].output = cut.output
            /\ f_res[1].calls = cut.calls
            /\ ~f_res[1].raised =>
                 /\ f_res[1].is_in_fence
                 /\ 2 * Len(f_res[1].calls) + 1 = Cardinality(fence_positions(f_input))

\* A file rewritten without error that has plain text, then a fence that is
\* opened and never closed, with lines after it.
C8_Witness ==
    /\ Len(f_res) >= 1
    /\ unterminated(f_input)
    /\ ~f_res[1].raised
    /\ last_fence(f_input) > 1
    /\ last_fence(f_input) < Len(readlines(f_input))
    /\ f_res[1].output # <<NL>>

(***************************************************************************)
(* Properties of the style command over a batch (Spec)                     *)
(***************************************************************************)
\* C1 as claimed: when formatting a file fails, every later file of the
\* batch is still written.
C1_LaterFilesStillWritten ==
    pc = "raised" =>
        \A j \in (idx + 1)..Len(filenames) : filenames[j] \in written

\* C2: a file is opened for writing only after format_file has returned.  A
\* file whose content differs from what it was when the command started has
\* been written in full or is the one being written, and the file whose
\* formatting failed is as it was.
C2_FailedFileUntouched ==
    /\ \A i \in 1..Len(filenames) :
          disk[filenames[i]] # disk0[filenames[i]] =>
              \/ filenames[i] \in written
              \/ pc = "print" /\ idx = i
    /\ pc = "raised" =>
          /\ filenames[idx] \notin written
          /\ disk[filenames[idx]] = disk0[filenames[idx]]

\* The formatting of a later file of the batch failed after plain lines of
\* it had been collected and an earlier file had been written.
C2_Witness ==
    /\ pc = "raised"
    /\ final_lines # <<>>
    /\ idx > 1
    /\ written # {}

\* One newline, and no whitespace before it.
one_trailing_newline(s) ==
    /\ s # <<>>
    /\ s[Len(s)] = NL
    /\ Len(s) > 1 => s[Len(s) - 1] \notin Whitespace

\* C3 as claimed: every file the style command has written ends with exactly
\* one newline.
C3_OneTrailingNewline ==
    \A f \in written : one_trailing_newline(disk[f])

(***************************************************************************)
(* Properties of the extraction (SpecExtract)                              *)
(***************************************************************************)
\* The elements of a set of numbers, in increasing order.
RECURSIVE ascending(_)
ascending(S) ==
    IF S = {} THEN <<>>
    ELSE LET m == CHOOSE x \in S : \A y \in S : x <= y
         IN  <<m>> \o ascending(S \ {m})

code_positions == { i \in 1..Len(ast) : ast[i].type = "block_code" }

\* The block and the name the code gives each block_code element.
parsed == [i \in code_positions |-> code_block(ast[i])]

\* The blocks without a name, the first block of each name, the blocks of
\* one name (p is `parsed`).
unnamed_positions(p) == { i \in DOMAIN p : p[i].name = <<>> }
first_positions(p) ==
    { i \in DOMAIN p :
        /\ p[i].name # <<>>
        /\ \A j \in DOMAIN p : j < i => p[j].name # p[i].name }
members_of(p, name) == { i \in DOMAIN p : p[i].name = name }

\* C9: the blocks returned are the unnamed blocks in document order, then
\* one block per name, the names in the order of their first block.
C9_UnnamedThenGroups ==
    x_pc = "collected" =>
        LET p == parsed
            u == ascending(unnamed_positions(p))
            g == ascending(first_positions(p))
        IN  /\ Len(blocks) = Len(u) + Len(g)
            /\ \A k \in 1..Len(u) : blocks[k] = p[u[k]].block
            /\ \A k \in 1..Len(g) :
                 /\ Example \in DOMAIN blocks[Len(u) + k].options
                 /\ blocks[Len(u) + k].options[Example][1] = p[g[k]].name

\* Two names and an unnamed block that comes after a named one.
C9_Witness ==
    /\ x_pc = "collected"
    /\ Cardinality(first_positions(parsed)) >= 2
    /\ \E i \in unnamed_positions(parsed) : \E j \in first_positions(parsed) : j < i

\* C10: the block of a name holds the code of the blocks of that name in
\* document order, joined by two newlines, under the language and options
\* of the first of them.
C10_Reassembly ==
    x_pc = "collected" =>
        LET p == parsed
            u == ascending(unnamed_positions(p))
            g == ascending(first_positions(p))
        IN  \A k \in 1..Len(g) :
              LET m == ascending(members_of(p, p[g[k]].name))
                  b == blocks[Len(u) + k]
              IN  /\ b.code = join(<<NL, NL>>, [i \in 1..Len(m) |-> ast[m[i]].text])
                  /\ b.language = p[g[k]].block.language
                  /\ b.options = p[g[k]].block.options

\* A name with two blocks of different code and different language, a
\* paragraph between them.
C10_Witness ==
    /\ x_pc = "collected"
    /\ \E i, j \in code_positions :
          /\ i + 1 < j
          /\ parsed[i].name # <<>>
          /\ parsed[i].name = parsed[j].name
          /\ ast[i].text # ast[j].text
          /\ parsed[i].block.language # parsed[j].block.language

(***************************************************************************)
(* Properties of the execution path (SpecExtract)                          *)
(***************************************************************************)
\* The text is a part of the code.
occurs_in(text, code) ==
    \E j \in 0..(Len(code) - Len(text)) : SubSeq(code, j + 1, j + Len(text)) = text

\* The header of the block carries skip=true.
skip_marked(p, i) ==
    /\ Skip \in DOMAIN p[i].block.options
    /\ p[i].block.options[Skip][1] = True

\* The code of the block is handed to no executor / is in no returned block
\* that shows the skip option.
not_run(i) == \A k \in 1..Len(argvalues) : ~occurs_in(text_at(i), argvalues[k].code)
shown_skipped(i) ==
    \E k \in 1..Len(blocks) :
        /\ occurs_in(text_at(i), blocks[k].code)
        /\ Skip \in DOMAIN blocks[k].options
        /\ blocks[k].options[Skip] = <<True>>

\* C11 as claimed: the code of every block whose header carries skip=true
\* is in no block of the parametrized list, and the block is in the
\* extraction output with skip -> ['true'], members of named groups included.
C11_SkipAlwaysHonoured ==
    x_pc = "parametrized" =>
        \A i \in code_positions :
            skip_marked(parsed, i) => not_run(i) /\ shown_skipped(i)

\* C11, amended: a block whose header carries skip=true and that is unnamed
\* or the first of its name is in no block of the parametrized list and is
\* in the extraction output with skip -> ['true']; the other blocks of a
\* name follow the first one, whatever their own header says: they are
\* skipped with it, and run with it when it is not skipped.
C11_SkipByFirstBlock ==
    x_pc = "parametrized" =>
        LET p == parsed
            leaders == unnamed_positions(p) \cup first_positions(p)
            skipped == { j \in leaders : skip_marked(p, j) }
        IN  \A i \in code_positions :
              LET lead == CHOOSE j \in leaders :
                              IF p[i].name = <<>> THEN j = i
                              ELSE p[j].name = p[i].name
              IN  IF lead \in skipped
                  THEN not_run(i) /\ shown_skipped(i)
                  ELSE \E k \in 1..Len(run_blocks) :
                          occurs_in(text_at(i), run_blocks[k].code)

\* A python test parametrized with real blocks, one unnamed block skipped,
\* and a skip-marked block that runs because it is a later block of a name.
C11_Witness ==
    /\ x_pc = "parametrized"
    /\ fixture = "python_code_block"
    /\ \E i \in unnamed_positions(parsed) : skip_marked(parsed, i)
    /\ \E i \in code_positions : skip_marked(parsed, i) /\ ~not_run(i)

\* The number of places of the code where the text stands.
occurrences(text, code) ==
    Cardinality({ j \in 0..(Len(code) - Len(text)) :
                    SubSeq(code, j + 1, j + Len(text)) = text })

\* C12: the list returned by get_top_level_block_codes has one block for
\* each code block without a non-empty example name and one for each
\* distinct non-empty example name (names as the extractor reads them), and
\* the text of every code block stands in exactly one returned block, once.
C12_ExtractionComplete ==
    x_pc = "collected" =>
        LET p == parsed IN
        /\ Len(blocks) = Cardinality(unnamed_positions(p))
                          + Cardinality({ p[i].name : i \in DOMAIN p } \ {<<>>})
        /\ \A i \in code_positions :
              /\ Cardinality({ k \in 1..Len(blocks) :
                                 occurs_in(text_at(i), blocks[k].code) }) = 1
              /\ \A k \in 1..Len(blocks) :
                    occurrences(text_at(i), blocks[k].code) <= 1

\* A document extracted with an unnamed block and a name given to two
\* blocks.
C12_Witness ==
    /\ x_pc = "collected"
    /\ unnamed_positions(parsed) # {}
    /\ Cardinality({ parsed[i].name : i \in code_positions } \ {<<>>}) = 1
    /\ Len(blocks) = 2
    /\ Cardinality(code_positions) = 3

\* The language a fixture runs, and the extracted blocks of that language
\* that are not labeled skip, by their place in the extraction output.
language_of_fixture == IF fixture = "python_code_block" THEN Python ELSE R
asked_for ==
    languages = <<>> \/ \E i \in 1..Len(languages) : languages[i] = language_of_fixture
runnable_places ==
    { k \in 1..Len(blocks) :
        /\ IF fixture = "python_code_block"
           THEN Len(blocks[k].language) >= 2
                /\ SubSeq(blocks[k].language, 1, 2) = <<"p", "y">>
           ELSE blocks[k].language = <<"r">>
        /\ ~(/\ Skip \in DOMAIN blocks[k].options
             /\ blocks[k].options[Skip][1] = True) }

\* C14: when no language is asked for, or the language of the fixture is
\* among those asked for, the fixture is parametrized with exactly the
\* extracted blocks of its language that are not skipped, in their order;
\* otherwise it is parametrized with exactly one block of code '1 + 1' and
\* the code of no extracted block is run.
C14_AllowList ==
    x_pc = "parametrized" =>
        IF asked_for
        THEN LET places == ascending(runnable_places) IN
             argvalues = [n \in 1..Len(places) |-> blocks[places[n]]]
        ELSE /\ Len(argvalues) = 1
             /\ argvalues[1].code = <<"1", " ", "+", " ", "1">>
             /\ argvalues[1].language = language_of_fixture
             /\ \A i \in code_positions : not_run(i)

\* The python fixture when only R is asked for and the document has a
\* python block that is not skipped.
C14_Witness ==
    /\ x_pc = "parametrized"
    /\ fixture = "python_code_block"
    /\ languages = <<R>>
    /\ runnable_places # {}
    /\ Len(argvalues) = 1

\* The first non-blank value the header of the block, as written, gives to
\* the key, whatever the case of the key; <<>> when it gives none.
written_value(i, key) ==
    LET info == IF ast[i].info = None THEN <<>> ELSE ast[i].info
        qs == partition(info, "?").tail
    IN  IF qs = <<>> THEN <<>>
        ELSE LET pairs == split(qs, "&")
                 hits == { n \in 1..Len(pairs) :
                             /\ lower(partition(pairs[n], "=").head) = key
                             /\ partition(pairs[n], "=").tail # <<>> }
             IN  IF hits = {} THEN <<>>
                 ELSE partition(pairs[CHOOSE n \in hits : \A m \in hits : n <= m],
                                "=").tail

\* C19: the header is lowercased as a whole: no key or value of the options
\* of a returned block has an upper-case letter, two blocks whose example
\* names as written differ only in letter case are merged into one block,
\* and a block whose header as written gives SKIP=TRUE in any case, unnamed
\* or first of its name, is not in the run list.
C19_WholeHeaderLowercased ==
    LET name == [i \in code_positions |-> lower(written_value(i, Example))]
        holder == [i \in code_positions |->
                     { k \in 1..Len(blocks) : occurs_in(text_at(i), blocks[k].code) }]
    IN  /\ x_pc = "collected" =>
              /\ \A k \in 1..Len(blocks) : \A key \in DOMAIN blocks[k].options :
                    /\ key = lower(key)
                    /\ \A n \in 1..Len(blocks[k].options[key]) :
                          blocks[k].options[key][n] = lower(blocks[k].options[key][n])
              /\ \A i, j \in code_positions :
                    name[i] # <<>> /\ name[i] = name[j] => holder[i] \cap holder[j] # {}
        /\ x_pc = "parametrized" =>
              \A i \in code_positions :
                  /\ lower(written_value(i, Skip)) = True
                  /\ \A j \in code_positions :
                        j < i => name[j] = <<>> \/ name[j] # name[i]
                  => \A k \in 1..Len(run_blocks) :
                        ~occurs_in(text_at(i), run_blocks[k].code)

\* A run list made from a document with two blocks whose names are written
\* in different case and a block whose skip option is written in upper case.
C19_Witness ==
    /\ x_pc = "parametrized"
    /\ \E i, j \in code_positions :
          /\ written_value(i, Example) # written_value(j, Example)
          /\ written_value(i, Example) # <<>>
          /\ lower(written_value(i, Example)) = lower(written_value(j, Example))
    /\ \E i \in code_positions :
          /\ written_value(i, Skip) # True
          /\ lower(written_value(i, Skip)) = True

(***************************************************************************)
(* Properties of one call of format_str (SpecDispatch)                     *)
(***************************************************************************)
\* The header as format_str reads it, and whether it begins with the text.
dispatch_key == lower(strip(d_args.parameters))
begins(s, prefix) == Len(s) >= Len(prefix) /\ SubSeq(s, 1, Len(prefix)) = prefix

\* C13: a call of format_str runs black, and nothing else, exactly when the
\* header, stripped and lowercased, begins with py; it runs docker, once and
\* nothing else, exactly when that header does not begin with py and begins
\* with r; it runs nothing and wraps the source as it is in every other
\* case.
C13_DispatchOneBranch ==
    d_res # <<>> =>
        LET r == d_res[1]
            py == begins(dispatch_key, <<"p", "y">>)
            ext == ~py /\ begins(dispatch_key, <<"r">>)
        IN  /\ r.tools \in {<<>>, <<"black">>, <<"docker">>}
            /\ r.tools = <<"black">> <=> py
            /\ r.tools = <<"docker">> <=> ext
            /\ r.tools = <<>> =>
                  /\ ~r.raised
                  /\ r.value = Fence \o dispatch_key \o <<NL>>
                                \o d_args.src_string \o <<NL>> \o Fence

\* A call with a header in upper case between spaces that ran black.
C13_Witness ==
    /\ d_res # <<>>
    /\ d_args.parameters = <<" ", "P", "Y", " ">>
    /\ d_res[1].tools = <<"black">>
    /\ ~d_res[1].raised

(***************************************************************************)
(* Properties of the scan of a file, line by line (Spec)                   *)
(***************************************************************************)
\* The line of the open file that was read last.
lines_read == Len(readlines(disk[filenames[idx]])) - Len(infile)
line_read == readlines(disk[filenames[idx]])[lines_read]

\* C15: when the scanner is in a fence and reads a line that begins with
\* the fence marker, whatever follows the marker, format_str is called with
\* the lines gathered since the opening and the header of the opening; if
\* the call returns, its value is the next unit of the output, it ends with
\* a bare fence line, and the scanner is out of the fence with no header
\* and no gathered line.
C15_AnyFenceLineCloses ==
    [][ /\ pc = "scan"
        /\ infile # <<>>
        /\ is_in_fence
        /\ begins(rstrip(infile[1]), Fence)
        => /\ Len(calls') = Len(calls) + 1
           /\ calls'[Len(calls')].src_string = join(<<NL>>, fenced_lines)
           /\ calls'[Len(calls')].parameters = fence_parameters
           /\ \/ pc' = "raised" /\ calls'[Len(calls')].raised
              \/ /\ pc' = "scan"
                 /\ ~is_in_fence'
                 /\ fence_parameters' = None
                 /\ fenced_lines' = <<>>
                 /\ final_lines' = Append(final_lines, calls'[Len(calls')].value)
                 /\ LET value == calls'[Len(calls')].value IN
                      SubSeq(value, Len(value) - 3, Len(value)) = <<NL>> \o Fence
      ]_vars

\* The scanner has just left a fence at a line that has a header after the
\* fence marker, other than the header the fence was opened with.
C15_Witness ==
    /\ pc = "scan"
    /\ ~is_in_fence
    /\ calls # <<>>
    /\ lines_read > 0
    /\ begins(line_read, Fence)
    /\ rstrip(line_read) # Fence
    /\ slice_from(rstrip(line_read), 3) # calls[Len(calls)].parameters
    /\ final_lines # <<>>
    /\ final_lines[Len(final_lines)] = calls[Len(calls)].value

(***************************************************************************)
(* Properties of the units of a rewrite (SpecFmt)                          *)
(***************************************************************************)
\* The fence lines of the file pair up in order: the n-th fence is opened
\* by the line opening(content, n) and closed by the line closing(content, n).
fence_count(content) == Cardinality(fence_positions(content)) \div 2
opening(content, n) == ascending(fence_positions(content))[2 * n - 1]
closing(content, n) == ascending(fence_positions(content))[2 * n]

\* The header and the body of the n-th fence, as they stand in the file.
header_of(content, n) ==
    slice_from(rstrip(readlines(content)[opening(content, n)]), 3)
body_of(content, n) ==
    LET ls == readlines(content)
        o == opening(content, n)
        c == closing(content, n)
    IN  join(<<NL>>, [i \in 1..(c - o - 1) |-> rstrip(ls[o + i])])

\* C16: the first rewrite of a file calls format_str once for each fence
\* that is opened and closed, in the order of the file, up to the call that
\* raises if one does; a call for a header that goes to the R toolchain
\* runs docker exactly once, and when docker ran, with text or nothing on
\* its output, the call does not raise and wraps that output.
C16_OneCallPerFence ==
    Len(f_res) >= 1 =>
        LET cs == f_res[1].calls IN
        /\ Len(cs) <= fence_count(f_input)
        /\ ~f_res[1].raised => Len(cs) = fence_count(f_input)
        /\ f_res[1].raised => cs # <<>> /\ cs[Len(cs)].raised
        /\ \A n \in 1..Len(cs) :
              LET key == lower(strip(cs[n].parameters))
                  ext == ~begins(key, <<"p", "y">>) /\ begins(key, <<"r">>)
              IN  /\ cs[n].parameters = header_of(f_input, n)
                  /\ cs[n].src_string = body_of(f_input, n)
                  /\ cs[n].raised => n = Len(cs)
                  /\ Len(cs[n].tools) <= 1
                  /\ ext =>
                        /\ cs[n].tools = <<"docker">>
                        /\ f_docker = "failed" =>
                              /\ ~cs[n].raised
                              /\ cs[n].value = Fence \o key \o <<NL, NL>> \o Fence
                        /\ f_docker = "styled" =>
                              /\ ~cs[n].raised
                              /\ cs[n].value =
                                    Fence \o key \o <<NL>>
                                    \o rstrip(subprocess_run(cs[n].src_string,
                                                             "styled").stdout)
                                    \o <<NL>> \o Fence

\* A file with two fences rewritten on a machine where docker gives nothing:
\* the R fence first, whose call gave an empty block.
C16_Witness ==
    /\ Len(f_res) >= 1
    /\ f_docker = "failed"
    /\ ~f_res[1].raised
    /\ Len(f_res[1].calls) = 2
    /\ f_res[1].calls[1].tools = <<"docker">>
    /\ f_res[1].calls[1].value = Fence \o R \o <<NL, NL>> \o Fence

\* The units the lines 1..k of the file give, in order: a line outside the
\* fences and without the marker gives itself, right-trimmed; the line that
\* closes the n-th fence gives the value of the n-th call; the other lines
\* (opening a fence, inside a fence) give nothing.
RECURSIVE units_upto(_, _, _)
units_upto(content, cs, k) ==
    IF k = 0 THEN <<>>
    ELSE LET ls == readlines(content)
             fp == fence_positions(content)
             before == Cardinality({ j \in fp : j < k })
         IN  units_upto(content, cs, k - 1) \o
             (IF k \in fp
              THEN IF before % 2 = 1 THEN <<cs[(before + 1) \div 2].value>> ELSE <<>>
              ELSE IF before % 2 = 1 THEN <<>> ELSE <<rstrip(ls[k])>>)

\* C17: a rewrite that returns gives back the lines outside the fences,
\* right-trimmed and otherwise as they are, and the transformed blocks, in
\* the order of the file, one per line or block and nothing else, the
\* blank lines at the end left out and one newline put after the last.
C17_PlainLinesKept ==
    (Len(f_res) >= 1 /\ ~f_res[1].raised) =>
        LET units == units_upto(f_input, f_res[1].calls, Len(readlines(f_input))) IN
        /\ f_res[1].final_lines = units
        /\ f_res[1].output = join(<<NL>>, drop_blank_tail(units)) \o <<NL>>

\* The rewrite of a file that has a line ending in whitespace, a blank
\* line, then a fence.
C17_Witness ==
    /\ Len(f_res) >= 1
    /\ ~f_res[1].raised
    /\ Len(f_res[1].calls) = 1
    /\ Len(f_res[1].final_lines) = 3
    /\ f_res[1].final_lines[1] = <<"x", "=", "1">>
    /\ f_res[1].final_lines[2] = <<>>
    /\ f_res[1].final_lines[3] = f_res[1].calls[1].value

(***************************************************************************)
(* Properties of the files of a batch, one after the other (Spec)          *)
(***************************************************************************)
\* C18: whatever the files before it left, the scan of a file starts out of
\* any fence, with no header, no gathered line and no output line, and what
\* format_file returns for the file is what it returns for that file
\* scanned alone.
C18_NoFenceStateAcrossFiles ==
    /\ (pc = "scan" /\ lines_read = 0) =>
          /\ ~is_in_fence
          /\ fence_parameters = None
          /\ fenced_lines = <<>>
          /\ final_lines = <<>>
    /\ pc = "open" =>
          \E docker \in DockerOutcomes :
              LET alone == format_file(disk[filenames[idx]], docker) IN
              /\ ~alone.raised
              /\ fixed_md = alone.output
              /\ calls = alone.calls

\* format_file has returned for the second file of the batch, a file with
\* a fence whose first line is plain text, after a first file that ended
\* inside a fence.
C18_Witness ==
    /\ pc = "open"
    /\ idx = 2
    /\ unterminated(disk0[filenames[1]])
    /\ filenames[1] \in written
    /\ ~begins(disk[filenames[2]], Fence)
    /\ calls # <<>>

====
